---- MODULE Spec2Model ----
(***************************************************************************)
(* Msg2All.py: translate one document into every supported language.       *)
(*                                                                         *)
(* Two specifications share this module:                                   *)
(*   ChunkSpec  the chunker chunk_text as a pure function, applied to      *)
(*              every text over a small alphabet and every max_chars;      *)
(*   Spec       a run of main / do_translate_all: worklist construction,   *)
(*              the ThreadPoolExecutor, the worker tasks and the           *)
(*              collecting loop over as_completed.                         *)
(***************************************************************************)
EXTENDS Integers, Sequences, FiniteSets, TLC

(***************************************************************************)
(* Bounds of the model.                                                    *)
(***************************************************************************)
\* longest text given to chunk_text in ChunkSpec
MaxTextLen == 5
\* largest max_chars given to chunk_text in ChunkSpec
MaxChunkArg == 3
\* largest --workers value tried in Spec (the smallest is MinWorkersArg)
MaxWorkersArg == 2
\* max_chars of the chunk_text(text) call of translate_full_text.  The
\* source's default is 4500; the documents of Spec and this limit are scaled
\* down together so that a document of two lines already needs two chunks.
DocMaxChars == 2

(***************************************************************************)
(* Characters and strings.  A string is a sequence of one-character        *)
(* strings; LF and CR are the line terminators of str.splitlines that      *)
(* the model distinguishes (CR LF counts as one terminator).               *)
(***************************************************************************)
LF == "\n"
CR == "\r"
Alphabet == {"a", "b", LF, CR}

Texts == UNION {[1..k -> Alphabet] : k \in 0..MaxTextLen}

\* "".join(parts)
RECURSIVE join(_)
join(parts) ==
    IF parts = <<>> THEN <<>> ELSE Head(parts) \o join(Tail(parts))

\* str.splitlines(keepends=True), scanning from position i with the current
\* line in cur and the finished lines in acc
RECURSIVE SplitFrom(_, _, _, _)
SplitFrom(t, i, cur, acc) ==
    IF i > Len(t)
    THEN IF cur = <<>> THEN acc ELSE Append(acc, cur)
    ELSE IF t[i] = CR /\ i < Len(t) /\ t[i + 1] = LF
         THEN SplitFrom(t, i + 2, <<>>, Append(acc, cur \o <<CR, LF>>))
         ELSE IF t[i] \in {CR, LF}
              THEN SplitFrom(t, i + 1, <<>>, Append(acc, Append(cur, t[i])))
              ELSE SplitFrom(t, i + 1, Append(cur, t[i]), acc)

\* the same scan with the terminators dropped (keepends=False)
RECURSIVE SplitFromNoEnds(_, _, _, _)
SplitFromNoEnds(t, i, cur, acc) ==
    IF i > Len(t)
    THEN IF cur = <<>> THEN acc ELSE Append(acc, cur)
    ELSE IF t[i] = CR /\ i < Len(t) /\ t[i + 1] = LF
         THEN SplitFromNoEnds(t, i + 2, <<>>, Append(acc, cur))
         ELSE IF t[i] \in {CR, LF}
              THEN SplitFromNoEnds(t, i + 1, <<>>, Append(acc, cur))
              ELSE SplitFromNoEnds(t, i + 1, Append(cur, t[i]), acc)

splitlines_nokeepends(t) == SplitFromNoEnds(t, 1, <<>>, <<>>)

\* text.splitlines(keepends=True)
splitlines(t) == SplitFrom(t, 1, <<>>, <<>>)

(***************************************************************************)
(* chunk_text                                                              *)
(***************************************************************************)
\* the flush test without the "and buf" guard
FlushNeeded_nobuf(count, line, buf, max_chars) ==
    count + Len(line) > max_chars

\* the flush test looking at the buffer only, not at the incoming line
FlushNeeded_noline(count, line, buf, max_chars) ==
    count > max_chars /\ buf # <<>>

\* if count + len(line) > max_chars and buf
FlushNeeded(count, line, buf, max_chars) ==
    count + Len(line) > max_chars /\ buf # <<>>

\* the for loop of chunk_text over lines[i..], then the final "if buf"
RECURSIVE ChunkLoop(_, _, _, _, _, _)
ChunkLoop(lines, i, chunks, buf, count, max_chars) ==
    IF i > Len(lines)
    THEN IF buf # <<>> THEN Append(chunks, join(buf)) ELSE chunks
    ELSE IF FlushNeeded(count, lines[i], buf, max_chars)
         THEN ChunkLoop(lines, i + 1, Append(chunks, join(buf)),
                        <<lines[i]>>, Len(lines[i]), max_chars)
         ELSE ChunkLoop(lines, i + 1, chunks,
                        Append(buf, lines[i]), count + Len(lines[i]), max_chars)

chunk_text(text, max_chars) ==
    IF Len(text) <= max_chars
    THEN <<text>>
    ELSE ChunkLoop(splitlines(text), 1, <<>>, <<>>, 0, max_chars)

(***************************************************************************)
(* State                                                                   *)
(***************************************************************************)
VARIABLES
    \* one call of chunk_text: its arguments, its position, its return value
    arg_text, arg_max_chars, chunk_pc, ret_chunks,
    \* main: args.workers, the exclude list, and max_workers as passed on
    args_workers, exclude, max_workers,
    \* position of the main thread, and the error that ended the run if any
    main_pc, fatal,
    \* do_translate_all: text, supported_codes, source_lang, to_translate
    text, supported_codes, source_lang, to_translate,
    \* the executor: futures in submission order (future i belongs to
    \* to_translate[i]), its work queue and its number of worker threads
    futures, work_queue, num_threads,
    \* locals of the _task / translate_full_text call of each future
    task,
    \* futures yielded by as_completed so far, in order
    collected,
    \* results, errors (insertion-ordered dicts), completed, total
    results, errors, completed, total,
    \* lines printed so far, and the files written (path -> content)
    output, files,
    \* the exception being handled in the current loop iteration (e)
    exc,
    \* language codes whose write_text call raised
    write_raised

chunk_vars == <<arg_text, arg_max_chars, chunk_pc, ret_chunks>>

arg_vars == <<args_workers, exclude>>

setup_vars == <<text, supported_codes, source_lang, to_translate>>

pool_vars == <<futures, work_queue, num_threads, task>>

loop_vars == <<collected, results, errors, completed, total, files, write_raised>>

run_vars == <<arg_vars, max_workers, main_pc, fatal, setup_vars, pool_vars,
              loop_vars, exc, output>>

vars == <<chunk_vars, run_vars>>

(***************************************************************************)
(* Inputs of a run                                                         *)
(***************************************************************************)
\* language codes the service supports
Codes == {"en", "fr", "de"}
\* get_supported_languages may list them in any order
Listings == {l \in [1..Cardinality(Codes) -> Codes] :
                \A i, j \in 1..Cardinality(Codes) : l[i] = l[j] => i = j}
\* codes detect_language may return: a supported one, or one not listed
DetectedCodes == {"en", "fr", "und"}
\* exclude lists: none, one code, or one with a duplicate and a code that
\* differs from a supported one in case only
ExcludeLists == {<<>>, <<"fr">>, <<"de", "EN", "de">>}
\* input documents: one chunk, or two chunks under DocMaxChars
Docs == {<<"a", LF>>, <<"a", LF, "b", LF>>}

(***************************************************************************)
(* Insertion-ordered dicts: sequences of [k, v] with distinct keys         *)
(***************************************************************************)
DictKeys(d) == {d[i].k : i \in 1..Len(d)}

DictGet(d, key) == d[CHOOSE i \in 1..Len(d) : d[i].k = key].v

\* a store that is lost
DictSet_lost(d, key, val) == d

\* d[key] = val
DictSet(d, key, val) ==
    IF key \in DictKeys(d)
    THEN [i \in 1..Len(d) |-> IF d[i].k = key THEN [k |-> key, v |-> val] ELSE d[i]]
    ELSE Append(d, [k |-> key, v |-> val])

Range(s) == {s[i] : i \in 1..Len(s)}

(***************************************************************************)
(* main and the set-up steps of do_translate_all                           *)
(***************************************************************************)
\* args.workers passed on as it is
Coerce_none(workers) == workers

\* max(1, args.workers)
Coerce(workers) == IF workers > 1 THEN workers ELSE 1

\* the worklist filter with the source-language test left out
Skip_nosource(code, source, excl) == code \in Range(excl)

\* the two "continue" tests of the worklist loop
Skip(code, source, excl) == code = source \/ code \in Range(excl)

\* the worklist loop over supported_codes[i..]
RECURSIVE BuildFrom(_, _, _, _)
BuildFrom(codes, i, source, excl) ==
    IF i > Len(codes) THEN <<>>
    ELSE IF Skip(codes[i], source, excl)
         THEN BuildFrom(codes, i + 1, source, excl)
         ELSE <<codes[i]>> \o BuildFrom(codes, i + 1, source, excl)

Line(kind, n, tot, code, err) ==
    [kind |-> kind, n |-> n, total |-> tot, code |-> code, err |-> err]

NoExc == "none"

PendingFuture == [state |-> "PENDING", result |-> <<>>, exception |-> NoExc]

\* calls: the translate_chunk calls the task has made so far, in order
NoTask == [chunks |-> <<>>, k |-> 0, pieces |-> <<>>, calls |-> <<>>]

\* one translate_chunk call: the chunk's position, the text sent, the
\* target language code sent, and whether the call returned
Call(idx, chunk, target, ok) ==
    [idx |-> idx, chunk |-> chunk, target |-> target, ok |-> ok]

RunIdle ==
    /\ args_workers = 0
    /\ exclude = <<>>
    /\ max_workers = 0
    /\ main_pc = "idle"
    /\ fatal = NoExc
    /\ text = <<>>
    /\ supported_codes = <<>>
    /\ source_lang = ""
    /\ to_translate = <<>>
    /\ futures = <<>>
    /\ work_queue = <<>>
    /\ num_threads = 0
    /\ task = <<>>
    /\ collected = <<>>
    /\ exc = NoExc
    /\ results = <<>>
    /\ errors = <<>>
    /\ completed = 0
    /\ total = 0
    /\ output = <<>>
    /\ files = <<>>
    /\ write_raised = {}

Init ==
    /\ arg_text = <<>>
    /\ arg_max_chars = 0
    /\ chunk_pc = "idle"
    /\ ret_chunks = <<>>
    /\ args_workers \in (-1)..MaxWorkersArg
    /\ exclude \in ExcludeLists
    /\ max_workers = 0
    /\ main_pc = "main"
    /\ fatal = NoExc
    /\ text = <<>>
    /\ supported_codes = <<>>
    /\ source_lang = ""
    /\ to_translate = <<>>
    /\ futures = <<>>
    /\ work_queue = <<>>
    /\ num_threads = 0
    /\ task = <<>>
    /\ collected = <<>>
    /\ exc = NoExc
    /\ results = <<>>
    /\ errors = <<>>
    /\ completed = 0
    /\ total = 0
    /\ output = <<>>
    /\ files = <<>>
    /\ write_raised = {}

\* main: do_translate_all(..., exclude=exclude, max_workers=max(1, args.workers))
Main ==
    /\ main_pc = "main"
    /\ max_workers' = Coerce(args_workers)
    /\ main_pc' = "load"
    /\ UNCHANGED <<chunk_vars, arg_vars, fatal, setup_vars, pool_vars,
                   loop_vars, exc, output>>

\* an exception outside the collecting loop ends the run
Abort(reason) ==
    /\ main_pc' = "aborted"
    /\ fatal' = reason
    /\ UNCHANGED <<chunk_vars, arg_vars, max_workers, setup_vars, pool_vars,
                   loop_vars, exc, output>>

\* text = pathlib.Path(input_path).read_text(encoding="utf-8")
LoadInput ==
    /\ main_pc = "load"
    /\ \E doc \in Docs : text' = doc
    /\ main_pc' = "list"
    /\ UNCHANGED <<chunk_vars, arg_vars, max_workers, fatal, supported_codes,
                   source_lang, to_translate, pool_vars, loop_vars, exc, output>>

LoadInputFails ==
    /\ main_pc = "load"
    /\ Abort("load")

\* supported = list_supported_languages(...); supported_codes = [...]
ListSupported ==
    /\ main_pc = "list"
    /\ \E l \in Listings : supported_codes' = l
    /\ main_pc' = "detect"
    /\ UNCHANGED <<chunk_vars, arg_vars, max_workers, fatal, text,
                   source_lang, to_translate, pool_vars, loop_vars, exc, output>>

ListSupportedFails ==
    /\ main_pc = "list"
    /\ Abort("list")

\* source_lang = detect_source_language(client, parent, text)
DetectSource ==
    /\ main_pc = "detect"
    /\ \E c \in DetectedCodes : source_lang' = c
    /\ main_pc' = "build"
    /\ UNCHANGED <<chunk_vars, arg_vars, max_workers, fatal, text,
                   supported_codes, to_translate, pool_vars, loop_vars, exc, output>>

\* the detection error is reported but the run goes on without a source
DetectSourceFails_continues ==
    /\ main_pc = "detect"
    /\ fatal' = "detect"
    /\ main_pc' = "build"
    /\ UNCHANGED <<chunk_vars, arg_vars, max_workers, setup_vars, pool_vars,
                   loop_vars, exc, output>>

DetectSourceFails ==
    /\ main_pc = "detect"
    /\ Abort("detect")

\* the worklist loop and the two prints after it
BuildWorklist ==
    /\ main_pc = "build"
    /\ to_translate' = BuildFrom(supported_codes, 1, source_lang, exclude)
    /\ output' = output \o
          <<Line("detected", 0, 0, source_lang, NoExc),
            Line("found", Len(supported_codes), Len(to_translate'), "", NoExc)>>
    /\ main_pc' = "executor"
    /\ UNCHANGED <<chunk_vars, arg_vars, max_workers, fatal, text,
                   supported_codes, source_lang, pool_vars, loop_vars, exc>>

(***************************************************************************)
(* The executor and its worker threads                                     *)
(***************************************************************************)
\* a thread started for every submitted task
AdjustThreadCount_unbounded(n, bound) == n + 1

\* no worker thread is ever started
AdjustThreadCount_none(n, bound) == n

\* ThreadPoolExecutor starts a thread on submit while it has fewer than
\* max_workers of them
AdjustThreadCount(n, bound) == IF n < bound THEN n + 1 ELSE n

Running == {i \in 1..Len(futures) : futures[i].state = "RUNNING"}

Finished == {i \in 1..Len(futures) : futures[i].state = "FINISHED"}

\* as_completed forgetting what it has yielded
Ready_again == Finished

\* the futures as_completed can yield now: finished and not yet yielded
Ready == Finished \ Range(collected)

\* ThreadPoolExecutor(max_workers=max_workers) raises ValueError when
\* max_workers <= 0
CreateExecutor ==
    /\ main_pc = "executor"
    /\ IF max_workers <= 0
       THEN Abort("ValueError")
       ELSE /\ main_pc' = "submit"
            /\ UNCHANGED <<chunk_vars, arg_vars, max_workers, fatal, setup_vars,
                           pool_vars, loop_vars, exc, output>>

\* ex.submit(_task, code) for the next (code, name) of to_translate
Submit ==
    /\ main_pc = "submit"
    /\ Len(futures) < Len(to_translate)
    /\ futures' = Append(futures, PendingFuture)
    /\ task' = Append(task, NoTask)
    /\ work_queue' = Append(work_queue, Len(futures) + 1)
    /\ num_threads' = AdjustThreadCount(num_threads, max_workers)
    /\ UNCHANGED <<chunk_vars, arg_vars, max_workers, main_pc, fatal, setup_vars,
                   loop_vars, exc, output>>

\* completed = 0; total = len(future_map); print("Starting translation...")
StartCollect ==
    /\ main_pc = "submit"
    /\ Len(futures) = Len(to_translate)
    /\ completed' = 0
    /\ total' = Len(futures)
    /\ output' = Append(output, Line("starting", 0, 0, "", NoExc))
    /\ main_pc' = "collect"
    /\ UNCHANGED <<chunk_vars, arg_vars, max_workers, fatal, setup_vars, pool_vars,
                   collected, results, errors, files, write_raised, exc>>

\* an idle worker thread takes the oldest work item and enters _task:
\* translate_full_text calls chunk_text(text)
StartTask(i) ==
    /\ work_queue # <<>>
    /\ Head(work_queue) = i
    /\ Cardinality(Running) < num_threads
    /\ work_queue' = Tail(work_queue)
    /\ futures' = [futures EXCEPT ![i].state = "RUNNING"]
    /\ task' = [task EXCEPT ![i] =
                  [chunks |-> chunk_text(text, DocMaxChars), k |-> 1,
                   pieces |-> <<>>, calls |-> <<>>]]
    /\ UNCHANGED <<chunk_vars, arg_vars, max_workers, main_pc, fatal, setup_vars,
                   num_threads, loop_vars, exc, output>>

\* what the service returns for one chunk: the chunk tagged with the target
Tr(target, chunk) == <<target, ":">> \o chunk

\* the task translating into the language of the last submitted job
\* instead of its own
TranslateChunk_latebinding(i) ==
    /\ i \in Running
    /\ LET t == task[i]
           target == to_translate[Len(futures)]
           pieces == Append(t.pieces, Tr(target, t.chunks[t.k]))
           calls == Append(t.calls, Call(t.k, t.chunks[t.k], target, TRUE))
       IN  IF t.k < Len(t.chunks)
           THEN /\ task' = [task EXCEPT ![i].pieces = pieces, ![i].k = t.k + 1,
                                        ![i].calls = calls]
                /\ UNCHANGED futures
           ELSE /\ task' = [task EXCEPT ![i].pieces = pieces, ![i].calls = calls]
                /\ futures' = [futures EXCEPT ![i].state = "FINISHED",
                                              ![i].result = join(pieces)]
    /\ UNCHANGED <<chunk_vars, arg_vars, max_workers, main_pc, fatal, setup_vars,
                   work_queue, num_threads, loop_vars, exc, output>>

\* the task storing its text in the shared results dict itself
TranslateChunk_stores(i) ==
    /\ i \in Running
    /\ LET t == task[i]
           target == to_translate[i]
           pieces == Append(t.pieces, Tr(target, t.chunks[t.k]))
           calls == Append(t.calls, Call(t.k, t.chunks[t.k], target, TRUE))
       IN  IF t.k < Len(t.chunks)
           THEN /\ task' = [task EXCEPT ![i].pieces = pieces, ![i].k = t.k + 1,
                                        ![i].calls = calls]
                /\ UNCHANGED <<futures, results>>
           ELSE /\ task' = [task EXCEPT ![i].pieces = pieces, ![i].calls = calls]
                /\ futures' = [futures EXCEPT ![i].state = "FINISHED",
                                              ![i].result = join(pieces)]
                /\ results' = DictSet(results, target, join(pieces))
    /\ UNCHANGED <<chunk_vars, arg_vars, max_workers, main_pc, fatal, setup_vars,
                   work_queue, num_threads, collected, errors, completed, total,
                   files, write_raised, exc, output>>

\* translate_chunk returns; after the last chunk the task returns
\* "".join(pieces) and the future is finished with that result
TranslateChunk(i) ==
    /\ i \in Running
    /\ LET t == task[i]
           target == to_translate[i]
           pieces == Append(t.pieces, Tr(target, t.chunks[t.k]))
           calls == Append(t.calls, Call(t.k, t.chunks[t.k], target, TRUE))
       IN  IF t.k < Len(t.chunks)
           THEN /\ task' = [task EXCEPT ![i].pieces = pieces, ![i].k = t.k + 1,
                                        ![i].calls = calls]
                /\ UNCHANGED futures
           ELSE /\ task' = [task EXCEPT ![i].pieces = pieces, ![i].calls = calls]
                /\ futures' = [futures EXCEPT ![i].state = "FINISHED",
                                              ![i].result = join(pieces)]
    /\ UNCHANGED <<chunk_vars, arg_vars, max_workers, main_pc, fatal, setup_vars,
                   work_queue, num_threads, loop_vars, exc, output>>

\* the failed chunk is skipped and the task goes on with the next one,
\* returning the pieces it has
TranslateChunkFails_continues(i) ==
    /\ i \in Running
    /\ LET t == task[i]
           calls == Append(t.calls, Call(t.k, t.chunks[t.k], to_translate[i], FALSE))
       IN  IF t.k < Len(t.chunks)
           THEN /\ task' = [task EXCEPT ![i].k = t.k + 1, ![i].calls = calls]
                /\ UNCHANGED futures
           ELSE /\ task' = [task EXCEPT ![i].calls = calls]
                /\ futures' = [futures EXCEPT ![i].state = "FINISHED",
                                              ![i].result = join(t.pieces)]
    /\ UNCHANGED <<chunk_vars, arg_vars, max_workers, main_pc, fatal, setup_vars,
                   work_queue, num_threads, loop_vars, exc, output>>

\* translate_chunk raises: the exception leaves translate_full_text and
\* _task, and the future is finished with it
TranslateChunkFails(i) ==
    /\ i \in Running
    /\ LET t == task[i]
       IN  task' = [task EXCEPT ![i].calls =
                       Append(t.calls, Call(t.k, t.chunks[t.k], to_translate[i], FALSE))]
    /\ futures' = [futures EXCEPT ![i].state = "FINISHED",
                                  ![i].exception = "translate_error"]
    /\ UNCHANGED <<chunk_vars, arg_vars, max_workers, main_pc, fatal, setup_vars,
                   work_queue, num_threads, loop_vars, exc, output>>

(***************************************************************************)
(* The collecting loop                                                     *)
(***************************************************************************)
\* the future of the current iteration and its language
cur == collected[Len(collected)]

lang_code == to_translate[cur]

\* the path built without the language code
out_file_nolang(code) == <<"outdir", "/", "stem", ".txt">>

\* pathlib.Path(outdir, f"{stem}.{lang_code}.txt")
out_file(code) == <<"outdir", "/", "stem", ".", code, ".txt">>

completed_same(n) == n

\* completed += 1
completed_inc(n) == n + 1

\* as_completed yields future i; translated = future.result();
\* results[lang_code] = translated, or the future's exception is raised
Collect(i) ==
    /\ main_pc = "collect"
    /\ i \in Ready
    /\ collected' = Append(collected, i)
    /\ IF futures[i].exception = NoExc
       THEN /\ results' = DictSet(results, to_translate[i], futures[i].result)
            /\ main_pc' = "write"
            /\ exc' = exc
       ELSE /\ exc' = futures[i].exception
            /\ main_pc' = "except"
            /\ results' = results
    /\ UNCHANGED <<chunk_vars, arg_vars, max_workers, fatal, setup_vars, pool_vars,
                   errors, completed, total, files, write_raised, output>>

\* the success is reported without the file having been written
WriteFile_skipped ==
    /\ main_pc = "write"
    /\ main_pc' = "report"
    /\ UNCHANGED <<chunk_vars, arg_vars, max_workers, fatal, setup_vars, pool_vars,
                   loop_vars, exc, output>>

\* out_file.write_text(translated, encoding="utf-8")
WriteFile ==
    /\ main_pc = "write"
    /\ files' = DictSet(files, out_file(lang_code), futures[cur].result)
    /\ main_pc' = "report"
    /\ UNCHANGED <<chunk_vars, arg_vars, max_workers, fatal, setup_vars, pool_vars,
                   collected, results, errors, completed, total, write_raised,
                   exc, output>>

\* write_text raises: either the file could not be opened, or it was
\* opened (and so truncated) and the write failed
WriteFileFails ==
    /\ main_pc = "write"
    /\ \E opened \in BOOLEAN :
          files' = IF opened THEN DictSet(files, out_file(lang_code), <<>>) ELSE files
    /\ write_raised' = write_raised \cup {lang_code}
    /\ exc' = "write_error"
    /\ main_pc' = "except"
    /\ UNCHANGED <<chunk_vars, arg_vars, max_workers, fatal, setup_vars, pool_vars,
                   collected, results, errors, completed, total, output>>

\* completed += 1; print(f"[{completed}/{total}] ok {label}")
ReportSuccess ==
    /\ main_pc = "report"
    /\ completed' = completed_inc(completed)
    /\ output' = Append(output, Line("ok", completed', total, lang_code, NoExc))
    /\ main_pc' = "collect"
    /\ UNCHANGED <<chunk_vars, arg_vars, max_workers, fatal, setup_vars, pool_vars,
                   collected, results, errors, total, files, write_raised, exc>>

\* the exception leaves the loop and do_translate_all instead of being caught
HandleException_propagates ==
    /\ main_pc = "except"
    /\ Abort(exc)

\* except Exception as e: errors[lang_code] = str(e); completed += 1; print
HandleException ==
    /\ main_pc = "except"
    /\ errors' = DictSet(errors, lang_code, exc)
    /\ completed' = completed_inc(completed)
    /\ output' = Append(output, Line("fail", completed', total, lang_code, exc))
    /\ main_pc' = "collect"
    /\ UNCHANGED <<chunk_vars, arg_vars, max_workers, fatal, setup_vars, pool_vars,
                   collected, results, total, files, write_raised, exc>>

\* the itemized lines without the error descriptions
FailureLines_noerr == [i \in 1..Len(errors) |-> Line("item", 0, 0, errors[i].k, NoExc)]

\* the itemized failure lines of the summary, in errors.items() order
FailureLines == [i \in 1..Len(errors) |-> Line("item", 0, 0, errors[i].k, errors[i].v)]

\* as_completed is exhausted: the with block ends and the summary is printed
Summary ==
    /\ main_pc = "collect"
    /\ Len(collected) = Len(futures)
    /\ output' = output \o <<Line("done", 0, 0, "", NoExc)>> \o
          (IF errors # <<>>
           THEN <<Line("some_failed", 0, 0, "", NoExc)>> \o FailureLines
           ELSE <<Line("all_ok", 0, 0, "", NoExc)>>)
    /\ main_pc' = "done"
    /\ UNCHANGED <<chunk_vars, arg_vars, max_workers, fatal, setup_vars, pool_vars,
                   loop_vars, exc>>

Next ==
    \/ Main
    \/ LoadInput
    \/ LoadInputFails
    \/ ListSupported
    \/ ListSupportedFails
    \/ DetectSource
    \/ DetectSourceFails
    \/ BuildWorklist
    \/ CreateExecutor
    \/ Submit
    \/ StartCollect
    \/ \E i \in 1..Len(futures) : StartTask(i)
    \/ \E i \in 1..Len(futures) : TranslateChunk(i)
    \/ \E i \in 1..Len(futures) : TranslateChunkFails(i)
    \/ \E i \in 1..Len(futures) : Collect(i)
    \/ WriteFile
    \/ WriteFileFails
    \/ ReportSuccess
    \/ HandleException
    \/ Summary

Spec == Init /\ [][Next]_vars

\* the steps of the main thread
MainThread ==
    \/ Main
    \/ LoadInput
    \/ LoadInputFails
    \/ ListSupported
    \/ ListSupportedFails
    \/ DetectSource
    \/ DetectSourceFails
    \/ BuildWorklist
    \/ CreateExecutor
    \/ Submit
    \/ StartCollect
    \/ \E i \in 1..Len(futures) : Collect(i)
    \/ WriteFile
    \/ WriteFileFails
    \/ ReportSuccess
    \/ HandleException
    \/ Summary

\* the steps of the worker thread that runs job i
Worker(i) == StartTask(i) \/ TranslateChunk(i) \/ TranslateChunkFails(i)

\* Fair scheduling: the main thread keeps running while it can; a queued
\* job is started when a worker thread is idle; every translate_chunk call
\* eventually returns or raises.
FairSpec ==
    /\ Spec
    /\ WF_vars(MainThread)
    /\ \A i \in 1..Cardinality(Codes) : WF_vars(Worker(i))

(***************************************************************************)
(* ChunkSpec: chunk_text applied to every bounded input                    *)
(***************************************************************************)
ChunkInit ==
    /\ arg_text \in Texts
    /\ arg_max_chars \in 1..MaxChunkArg
    /\ chunk_pc = "call"
    /\ ret_chunks = <<>>
    /\ RunIdle

CallChunkText ==
    /\ chunk_pc = "call"
    /\ ret_chunks' = chunk_text(arg_text, arg_max_chars)
    /\ chunk_pc' = "returned"
    /\ UNCHANGED <<arg_text, arg_max_chars, run_vars>>

ChunkNext == CallChunkText

ChunkSpec == ChunkInit /\ [][ChunkNext]_vars

(***************************************************************************)
(* Claims about chunk_text (checked under ChunkSpec)                       *)
(***************************************************************************)
\* the lines of every chunk, in chunk order
RECURSIVE LinesOfChunks(_)
LinesOfChunks(chunks) ==
    IF chunks = <<>> THEN <<>>
    ELSE splitlines(Head(chunks)) \o LinesOfChunks(Tail(chunks))

\* C7: chunk round-trip -- for every text and every max_chars >= 1 the chunks
\* returned by chunk_text, concatenated in order, are the text exactly.
C7_ChunkRoundTrip ==
    chunk_pc = "returned" => join(ret_chunks) = arg_text

\* a text with a CR LF pair that was cut into several chunks
C7_Witness ==
    /\ chunk_pc = "returned"
    /\ Len(ret_chunks) >= 2
    /\ \E i \in 1..(Len(arg_text) - 1) : arg_text[i] = CR /\ arg_text[i + 1] = LF

\* C8 as stated: exactly one chunk iff len(text) <= max_chars.
C8_OneChunkIffShort ==
    chunk_pc = "returned" =>
        (Len(ret_chunks) = 1 <=> Len(arg_text) <= arg_max_chars)

\* C8 amended: chunk_text returns exactly one chunk iff len(text) <= max_chars
\* or the text is a single line (splitlines yields exactly one line).
C8_OneChunkIffShortOrOneLine ==
    chunk_pc = "returned" =>
        (Len(ret_chunks) = 1 <=>
            (Len(arg_text) <= arg_max_chars \/ Len(splitlines(arg_text)) = 1))

\* a single over-long line returned as one chunk
C8_Witness ==
    /\ chunk_pc = "returned"
    /\ Len(arg_text) > arg_max_chars
    /\ Len(ret_chunks) = 1

\* C9: chunk size bound -- every chunk has length <= max_chars unless it is
\* exactly one line; no line is split across chunks (the lines of the chunks
\* are the lines of the text), so an over-long line is whole and alone.
C9_ChunkSizeBound ==
    chunk_pc = "returned" =>
        /\ \A i \in 1..Len(ret_chunks) :
               \/ Len(ret_chunks[i]) <= arg_max_chars
               \/ /\ Len(splitlines(ret_chunks[i])) = 1
                  /\ splitlines(ret_chunks[i])[1] = ret_chunks[i]
        /\ LinesOfChunks(ret_chunks) = splitlines(arg_text)

\* an over-long line in a chunk of its own between two other chunks
C9_Witness ==
    /\ chunk_pc = "returned"
    /\ Len(ret_chunks) >= 3
    /\ Len(ret_chunks[2]) > arg_max_chars
    /\ Len(ret_chunks[1]) <= arg_max_chars

(***************************************************************************)
(* Claims about a run (checked under Spec)                                 *)
(***************************************************************************)
\* the progress lines printed so far, in order
IsProgress(l) == l.kind \in {"ok", "fail"}

ProgressLines == SelectSeq(output, IsProgress)

\* the scheduler loop has finished: as_completed has nothing left to yield
\* and the main thread is between iterations or past the loop
LoopFinished ==
    \/ main_pc = "done"
    \/ main_pc = "collect" /\ Len(collected) = Len(futures)

\* the run has ended after jobs were submitted
RunEnded ==
    \/ main_pc = "done"
    \/ main_pc = "aborted" /\ futures # <<>>

\* the text translate_full_text returns for a target when no call fails
RECURSIVE TranslateAll(_, _)
TranslateAll(target, chunks) ==
    IF chunks = <<>> THEN <<>>
    ELSE Tr(target, Head(chunks)) \o TranslateAll(target, Tail(chunks))

FullTranslation(target) == TranslateAll(target, chunk_text(text, DocMaxChars))

\* the outcome of job i as its own translation calls and its own file write
\* decide it: a failed translation is an error and no result; a successful
\* one is the full translation as result, and an error only if the write raised
OwnOutcome(i) ==
    LET c == to_translate[i] IN
    IF futures[i].exception # NoExc
    THEN /\ c \in DictKeys(errors)
         /\ DictGet(errors, c) = futures[i].exception
         /\ c \notin DictKeys(results)
    ELSE /\ c \in DictKeys(results)
         /\ DictGet(results, c) = FullTranslation(c)
         /\ c \in DictKeys(errors) <=> c \in write_raised

\* C1: outcome completeness -- once the scheduler loop has finished, the keys
\* of results united with the keys of errors are exactly the worklist codes;
\* at no time is a code outside the worklist a key of either.
C1_OutcomeCompleteness ==
    /\ DictKeys(results) \cup DictKeys(errors) \subseteq Range(to_translate)
    /\ LoopFinished =>
          DictKeys(results) \cup DictKeys(errors) = Range(to_translate)

\* a finished run of three jobs with both successes and failures
C1_Witness ==
    /\ main_pc = "done"
    /\ Len(to_translate) = 3
    /\ results # <<>>
    /\ errors # <<>>
    /\ DictKeys(results) # Range(to_translate)

\* C2: progress monotonicity -- the k-th progress line carries completed
\* count k and total N = number of worklist jobs; no two progress lines are
\* for the same language; when the loop has finished there are N of them.
C2_ProgressMonotone ==
    LET P == ProgressLines IN
    /\ \A k \in 1..Len(P) : P[k].n = k /\ P[k].total = Len(to_translate)
    /\ \A j, k \in 1..Len(P) : P[j].code = P[k].code => j = k
    /\ \A k \in 1..Len(P) : P[k].code \in Range(to_translate)
    /\ LoopFinished /\ total = Len(to_translate) => Len(P) = Len(to_translate)
    /\ main_pc = "done" => Len(P) = Len(to_translate)

\* three jobs reported out of submission order, a failure first
C2_Witness ==
    /\ main_pc = "done"
    /\ Len(ProgressLines) = 3
    /\ ProgressLines[1].kind = "fail"
    /\ ProgressLines[1].code = to_translate[3]
    /\ ProgressLines[3].kind = "ok"

\* C3: exactly-once completion -- as_completed yields no future twice; the
\* k-th progress line reports the k-th yielded future, as a failure iff its
\* task or its file write raised; when the run ends every submitted future
\* has been yielded and reported.
C3_ExactlyOnce ==
    LET P == ProgressLines IN
    /\ \A j, k \in 1..Len(collected) : collected[j] = collected[k] => j = k
    /\ Len(P) <= Len(collected) /\ Len(collected) <= Len(P) + 1
    /\ \A k \in 1..Len(P) :
          /\ k <= Len(collected)
          /\ P[k].code = to_translate[collected[k]]
          /\ P[k].kind = "fail" <=>
                \/ futures[collected[k]].exception # NoExc
                \/ P[k].code \in write_raised
    /\ main_pc = "done" =>
          /\ Len(futures) = Len(to_translate)
          /\ Range(collected) = 1..Len(futures)
          /\ Len(P) = Len(futures)

\* a finished run in which a task raised, a write raised and a job succeeded
C3_Witness ==
    /\ main_pc = "done"
    /\ Len(futures) = 3
    /\ \E i \in 1..3 : futures[i].exception # NoExc
    /\ write_raised # {}
    /\ \E k \in 1..3 : ProgressLines[k].kind = "ok"

\* C4: bounded concurrency -- at every instant at most max_workers tasks
\* are executing.
C4_BoundedConcurrency ==
    Cardinality(Running) <= max_workers

\* all workers busy while a submitted job still waits in the queue
C4_Witness ==
    /\ Len(to_translate) > max_workers
    /\ Cardinality(Running) = max_workers
    /\ max_workers >= 2
    /\ work_queue # <<>>

\* C5: fail isolation -- when the run has ended, every language has the
\* outcome its own calls decide: a language whose translation failed has a
\* failure and nothing else, and every other language has what it would
\* have had without that failure.
C5_FailIsolation ==
    RunEnded =>
        /\ main_pc = "done"
        /\ Len(futures) = Len(to_translate)
        /\ \A i \in 1..Len(futures) : OwnOutcome(i)

\* a job failed on its second chunk and was collected first; another job
\* collected after it succeeded and has its file
C5_Witness ==
    /\ main_pc = "done"
    /\ Len(collected) >= 2
    /\ futures[collected[1]].exception # NoExc
    /\ task[collected[1]].k = 2
    /\ futures[collected[2]].exception = NoExc
    /\ to_translate[collected[2]] \notin DictKeys(errors)
    /\ out_file(to_translate[collected[2]]) \in DictKeys(files)

\* C6: worker-count coercion -- a --workers value below 1 reaches the
\* executor as 1 and never ends the run with ValueError; a run with
\* --workers 0 and a run with --workers 1 both schedule every worklist job
\* and end with the outcomes the jobs' own calls decide, hence the same ones.
C6_WorkerCoercion ==
    /\ fatal # "ValueError"
    /\ main_pc # "main" /\ args_workers < 1 => max_workers = 1
    /\ main_pc = "done" /\ args_workers <= 1 =>
          /\ Len(futures) = Len(to_translate)
          /\ \A i \in 1..Len(futures) : OwnOutcome(i)
          /\ DictKeys(results) \cup DictKeys(errors) = Range(to_translate)

\* a finished run started with --workers 0 that translated several languages
C6_Witness ==
    /\ main_pc = "done"
    /\ args_workers = 0
    /\ Len(to_translate) >= 2
    /\ Len(results) >= 2

\* the worklist has been built
Built == output # <<>>

\* C10: worklist exclusion -- the worklist never contains the detected
\* source code nor a code of the exclude list, and it contains every other
\* supported code, whatever the order of the listing.
C10_WorklistExclusion ==
    Built =>
        /\ source_lang \notin Range(to_translate)
        /\ Range(to_translate) \cap Range(exclude) = {}
        /\ \A c \in Range(supported_codes) :
              c # source_lang /\ c \notin Range(exclude) => c \in Range(to_translate)
        /\ Range(to_translate) \subseteq Range(supported_codes)

\* the source is listed last, an excluded code is listed, one target is left
C10_Witness ==
    /\ Built
    /\ supported_codes[3] = source_lang
    /\ Range(exclude) \cap Range(supported_codes) # {}
    /\ Len(to_translate) = 1

\* the errors only a fatal set-up step raises
SetupErrors == {"load", "list", "detect"}

\* C11: the run does not abort because of per-language failures -- the run
\* is aborted only by a set-up error, before any job is submitted; no
\* exception of a job or of a file write leaves the loop; until the summary
\* is printed some step of the run is always possible; and the summary is
\* printed only when every job has been collected and reported.
C11_NoAbortOnJobFailure ==
    /\ main_pc = "aborted" => fatal \in SetupErrors /\ futures = <<>>
    /\ fatal \notin {"translate_error", "write_error"}
    /\ main_pc \notin {"done", "aborted"} => ENABLED Next
    /\ main_pc = "done" =>
          /\ Range(collected) = 1..Len(to_translate)
          /\ Len(ProgressLines) = Len(to_translate)
          /\ \E k \in 1..Len(output) : output[k].kind = "done"

\* a run that reached the summary although every one of its three jobs
\* failed, by a failing chunk call or by a failing write
C11_Witness ==
    /\ main_pc = "done"
    /\ Len(to_translate) = 3
    /\ Len(errors) = 3
    /\ write_raised # {}
    /\ \E i \in 1..3 : futures[i].exception # NoExc

\* C12: fatal set-up failures produce no partial work -- once loading the
\* input, listing the languages or detecting the source has failed, the run
\* is over with that error: no job was or is submitted, no chunk was sent,
\* nothing is collected or printed as progress, and no file is written.
C12_FatalNoPartialWork ==
    fatal \in SetupErrors =>
        /\ main_pc = "aborted"
        /\ to_translate = <<>>
        /\ futures = <<>> /\ task = <<>> /\ work_queue = <<>>
        /\ num_threads = 0
        /\ collected = <<>> /\ results = <<>> /\ errors = <<>>
        /\ files = <<>>
        /\ output = <<>>

\* the detection failed after the input was loaded and the languages listed
C12_Witness ==
    /\ fatal = "detect"
    /\ main_pc = "aborted"
    /\ text # <<>>
    /\ supported_codes # <<>>

\* C13: persist before report -- whenever a success line for a language has
\* been printed, or is about to be, that language's file holds its
\* translated text and its write_text call did not raise.
C13_PersistBeforeReport ==
    LET Persisted(c) ==
            /\ out_file(c) \in DictKeys(files)
            /\ c \in DictKeys(results)
            /\ DictGet(files, out_file(c)) = DictGet(results, c)
            /\ c \notin write_raised
    IN  /\ \A k \in 1..Len(output) : output[k].kind = "ok" => Persisted(output[k].code)
        /\ main_pc = "report" => Persisted(lang_code)

\* a success has been reported while another language's write has raised
C13_Witness ==
    /\ \E k \in 1..Len(output) : output[k].kind = "ok"
    /\ write_raised # {}
    /\ main_pc = "report"

\* job i failed: its task raised or its file write raised
JobFailed(i) ==
    futures[i].exception # NoExc \/ to_translate[i] \in write_raised

\* the error description of a failed job
ErrorOf(i) ==
    IF futures[i].exception # NoExc THEN futures[i].exception ELSE "write_error"

IsFail(l) == l.kind = "fail"

IsItem(l) == l.kind = "item"

IsVerdict(l) == l.kind \in {"all_ok", "some_failed"}

\* C14: failure reporting -- a failed job is reported by a failure progress
\* line in the iteration that collected it, with its error description; the
\* summary lists the same languages with the same descriptions, in the same
\* order, after the progress lines; "all translated" is printed iff no job
\* failed.
C14_FailureReporting ==
    LET P == ProgressLines
        F == SelectSeq(output, IsFail)
        I == SelectSeq(output, IsItem)
        V == SelectSeq(output, IsVerdict)
    IN  /\ \A k \in 1..Len(P) :
              JobFailed(collected[k]) =>
                  /\ P[k].kind = "fail"
                  /\ P[k].code = to_translate[collected[k]]
                  /\ P[k].err = ErrorOf(collected[k])
        /\ main_pc # "done" => I = <<>> /\ V = <<>>
        /\ main_pc = "done" =>
              /\ Len(I) = Len(F)
              /\ \A k \in 1..Len(I) : I[k].code = F[k].code /\ I[k].err = F[k].err
              /\ \A i \in 1..Len(futures) :
                    JobFailed(i) =>
                        \E k \in 1..Len(I) :
                            I[k].code = to_translate[i] /\ I[k].err = ErrorOf(i)
              /\ Len(V) = 1
              /\ V[1].kind = "all_ok" <=> \A i \in 1..Len(futures) : ~JobFailed(i)

\* a finished run whose summary lists two failures with different errors
C14_Witness ==
    /\ main_pc = "done"
    /\ \E j, k \in 1..Len(output) :
          /\ j < k
          /\ output[j].kind = "item" /\ output[k].kind = "item"
          /\ output[j].err = "write_error" /\ output[k].err = "translate_error"
    /\ results # <<>>

\* the chunks every job translates
DocChunks == chunk_text(text, DocMaxChars)

\* C15: fail-fast within a job -- the translate_chunk calls of a job are
\* for chunks 1, 2, ... in order, each chunk once, each with the job's own
\* target; a failed call is the job's last call; the job then is finished
\* with that failure, has no translated text, no result and no file.
C15_FailFast ==
    \A i \in 1..Len(task) :
        LET t == task[i]
            n == Len(t.calls)
        IN  /\ n <= Len(DocChunks)
            /\ \A j \in 1..n :
                  /\ t.calls[j].idx = j
                  /\ t.calls[j].chunk = DocChunks[j]
                  /\ t.calls[j].target = to_translate[i]
                  /\ j < n => t.calls[j].ok
            /\ futures[i].exception # NoExc <=> (n > 0 /\ ~t.calls[n].ok)
            /\ futures[i].exception # NoExc =>
                  /\ futures[i].state = "FINISHED"
                  /\ futures[i].result = <<>>
                  /\ to_translate[i] \notin DictKeys(results)
                  /\ out_file(to_translate[i]) \notin DictKeys(files)

\* a job whose first chunk was translated and whose second chunk call
\* failed, in a run that has ended
C15_Witness ==
    /\ main_pc = "done"
    /\ \E i \in 1..Len(task) :
          /\ Len(task[i].chunks) = 2
          /\ Len(task[i].calls) = 2
          /\ ~task[i].calls[2].ok
          /\ task[i].pieces # <<>>
          /\ futures[i].result = <<>>

\* C16: intra-job ordering -- the pieces a job holds are the translations
\* of its first chunks into its own language, in chunk order; a job all of
\* whose calls succeeded returns their concatenation in chunk order; no
\* result carries the tag of another language.
C16_IntraJobOrder ==
    \A i \in 1..Len(task) :
        LET t == task[i]
            own == to_translate[i]
        IN  /\ Len(t.pieces) <= Len(DocChunks)
            /\ \A j \in 1..Len(t.pieces) : t.pieces[j] = Tr(own, DocChunks[j])
            /\ futures[i].state = "FINISHED" /\ futures[i].exception = NoExc =>
                  /\ Len(t.pieces) = Len(DocChunks)
                  /\ futures[i].result = FullTranslation(own)
            /\ \A c \in Codes \ {own} : c \notin Range(futures[i].result)
            /\ own \in DictKeys(results) => DictGet(results, own) = FullTranslation(own)

\* a job of two chunks finished while a job submitted before it is still
\* between its two chunks: the two ran interleaved
C16_Witness ==
    \E i, j \in 1..Len(task) :
        /\ j < i
        /\ futures[i].state = "FINISHED" /\ futures[i].exception = NoExc
        /\ Len(task[i].pieces) = 2
        /\ futures[j].state = "RUNNING"
        /\ task[j].k = 2

\* the three shared variables of the collecting loop
Shared == <<results, errors, completed>>

\* C17: shared-state discipline -- results, errors and completed change
\* only in a step of the main thread inside the collecting loop, a step in
\* which no worker thread does anything; between iterations completed is the
\* number of futures collected, and every progress line carries the number
\* of futures collected when it was printed.
C17_SharedState ==
    /\ [][Shared' # Shared =>
             /\ main_pc \in {"collect", "report", "except"}
             /\ main_pc' # main_pc
             /\ UNCHANGED pool_vars]_vars
    /\ [][Len(ProgressLines') > Len(ProgressLines) =>
             /\ ProgressLines'[Len(ProgressLines')].n = Len(collected)
             /\ completed' = Len(collected)
             /\ UNCHANGED pool_vars]_vars
    /\ [](main_pc = "collect" => completed = Len(collected))
    /\ [](main_pc \in {"write", "report", "except"} => completed = Len(collected) - 1)

\* the main thread is about to count a job while two workers are in the
\* middle of their jobs
C17_Witness ==
    /\ main_pc \in {"report", "except"}
    /\ completed = 0
    /\ Cardinality(Running) = 2
    /\ \A i \in Running : task[i].k = 2

\* C18: termination -- under fair scheduling a run that has built its
\* worklist reaches the summary, with every job collected; the summary
\* lines come after all N progress lines.
C18_Termination ==
    /\ (main_pc = "executor") ~> (main_pc = "done")
    /\ [](main_pc = "done" =>
             /\ Range(collected) = 1..Len(to_translate)
             /\ Len(ProgressLines) = Len(to_translate))
    /\ [](\A j, k \in 1..Len(output) :
             output[j].kind = "done" /\ IsProgress(output[k]) => k < j)
    /\ []((\E j \in 1..Len(output) : output[j].kind = "done") =>
             Len(ProgressLines) = Len(to_translate))

\* three jobs run one after the other on a single worker, summary printed
C18_Witness ==
    /\ main_pc = "done"
    /\ max_workers = 1
    /\ Len(to_translate) = 3
    /\ Len(ProgressLines) = 3

\* C19: outcome exclusivity -- at the end of a run no language code is a
\* key of both results and errors.
C19_OutcomeExclusive ==
    main_pc = "done" => DictKeys(results) \cap DictKeys(errors) = {}

\* job i has had every chunk translated
AllChunksTranslated(i) ==
    /\ futures[i].state = "FINISHED"
    /\ futures[i].exception = NoExc
    /\ Len(task[i].calls) = Len(DocChunks)
    /\ \A j \in 1..Len(task[i].calls) : task[i].calls[j].ok

====
